---------------------------- MODULE Spec2Model ----------------------------
(***************************************************************************)
(* Position-hedging state machine of the polymarket bot.                   *)
(*                                                                         *)
(* The program modelled is the strategy loop of src/eth/src/main.rs        *)
(* together with the library functions of src/common/src/utils.rs that it  *)
(* calls (manage_position_after_match, prevent_holding_position,           *)
(* allow_trade, allow_stop_loss, floor_dp, normalized_size, ...).          *)
(*                                                                         *)
(* Representation.                                                         *)
(*   - A Decimal size is an integer counting thousandths (2.567 = 2567).   *)
(*   - A Decimal price is an integer counting hundredths (0.80 = 80).      *)
(*   - The venue is the order table `orders`; an order id is its index.    *)
(*   - `now` is the wall clock in unix seconds.  In the specification of   *)
(*     the state machine it is sampled at the instants ClockPoints: the    *)
(*     first second of every interval on which all time tests of the       *)
(*     program (allow_trade, allow_stop_loss, nearest_quarter_hour) are    *)
(*     constant.  A sleep does not by itself move the clock to the next    *)
(*     interval; the action Tick does.                                     *)
(*   - One action is one gateway call (an await of the program) followed   *)
(*     by the synchronous code up to the next gateway call.                *)
(***************************************************************************)
EXTENDS Integers, Sequences, FiniteSets, TLC

VARIABLES
    now,                    \* wall clock, unix seconds
    orders,                 \* venue order table, Seq of order records
    faults,                 \* gateway failures the network may still inject
    venue_policy,           \* venue's answer to a cancel of a terminal order
    cfg,                    \* process configuration (environment variables)
    pc,                     \* position of the program
    timestamp,              \* main: let timestamp
    opened,                 \* open_start_positions: let mut orders
    first_order_id,         \* main: first order id
    second_order_id,        \* main: second order id
    first_order_status,     \* main: snapshot of the first leg
    second_order_status,    \* main: snapshot of the second leg
    win_count,              \* main: let mut win_count
    loss_count,             \* main: let mut loss_count
    completed_timestamps,   \* main: let mut completed_timestamps
    caller,                 \* who called manage_position_after_match
    hedge_config,           \* HedgeConfig of the running hedge cycle
    ph_order_id,            \* PreventHoldingConfig.order_id
    sibling_status,         \* manage: let second_order_status (re-read)
    hedge_size,             \* manage: let mut hedge_size
    hedge_order_id,         \* manage: hedge_order.order_id (GTC hedge)
    hedge_order_status,     \* manage: let hedge_order_status
    exit_price,             \* manage: current_second_asset_price
    exit_order_id,          \* manage: hedge_order.order_id of the exit loop
    cycles,                 \* history: timestamps of the hedge cycles started
    result,                 \* history: what the last manage call returned
    last_cancel,            \* history: the last cancel call and its outcome
    unwind,                 \* history: the stop-loss unwind of this cycle
    gate,                   \* inputs and outputs of the window-gate functions
    sizing,                 \* inputs and output of normalized_size
    retry,                  \* one call of get_order_with_retry
    closing,                \* inputs and output of the exit-size expression
    closer,                 \* one call of close_position_with_retry
    quarter                 \* one call of nearest_quarter_hour

vars == << now, orders, faults, venue_policy, cfg, pc, timestamp, opened,
           first_order_id, second_order_id, first_order_status,
           second_order_status, win_count, loss_count, completed_timestamps,
           caller, hedge_config, ph_order_id, sibling_status, hedge_size,
           hedge_order_id, hedge_order_status, exit_price, exit_order_id,
           cycles, result, last_cancel, unwind, gate, sizing, retry, closing,
           closer, quarter >>

(***************************************************************************)
(* Program constants.                                                      *)
(***************************************************************************)
MarketDuration == 900       \* utils.rs: seconds_since_start >= 900
StopLossGrace == 60         \* utils.rs: allow_stop_loss(hedge_config.timestamp, 60)
EntryGrace == 90            \* eth main: allow_trade(timestamp, 90)
HoldGrace == 30             \* eth main: allow_trade(timestamp, 30)

(***************************************************************************)
(* Bounds of the model.                                                    *)
(***************************************************************************)
MaxOrders == 5              \* orders the venue table may hold
MaxFaults == 1              \* gateway failures injected in one behaviour
MaxWindow == 2              \* quarter-hour windows the clock runs through
GateSpan == 3               \* SpecGate: seconds explored around each boundary
SizeSpan == 30              \* SpecSize: sizes explored around zero, thousandths
MaxAttempts == 10           \* SpecRetry: largest max_retries explored
CloseSpan == 30             \* SpecExitSize: close sizes explored from zero, thousandths
QuarterSpan == 3            \* SpecQuarter: seconds explored around each quarter hour

OrderSizes == {2000}                    \* ORDER_SIZE
EntryPrices == {50}                     \* LIMIT_ENTER_PRICE
HedgePrices == {45}                     \* HEDGE_ENTER_PRICE
SizeValues == {0, 1005, 2000}           \* size_matched values the venue reports
PriceValues == {50, 80, 100}            \* prices the venue reports
GateGraces == {0, 20, 60, 90}           \* SpecGate: grace_seconds
SizeSamples == {-2567, -1005, 1005, 2567} \* SpecSize: sizes away from zero
Fallbacks == {0, 1000}                  \* SpecSize: fallback

\* The configuration of the eth binary; asset is the Asset its main names.
Configs == [order_size : OrderSizes, limit_enter_price : EntryPrices,
            hedge_enter_price : HedgePrices, asset : {"eth"}]

\* The configuration of the btc binary.
BtcConfigs == [order_size : OrderSizes, limit_enter_price : EntryPrices,
               hedge_enter_price : HedgePrices, asset : {"btc"}]

\* The first second of each interval of a window on which every time test of
\* the program is constant, as an offset from the quarter-hour boundary.
ClockOffsets == {0, StopLossGrace, MarketDuration - EntryGrace + 1,
                 MarketDuration - HoldGrace + 1}
ClockPoints ==
    {t \in {w * MarketDuration + o : w \in 0..MaxWindow, o \in ClockOffsets} :
        t <= MaxWindow * MarketDuration}

(***************************************************************************)
(* Pure functions of utils.rs.                                             *)
(***************************************************************************)
\* 10^(3-dp): the weight, in thousandths, of one unit of the dp-th decimal.
DecimalUnit(dp) == 10 ^ (3 - dp)

\* value.round_dp_with_strategy(dp, RoundingStrategy::ToZero)
floor_dp(value, dp) ==
    IF value >= 0
    THEN (value \div DecimalUnit(dp)) * DecimalUnit(dp)
    ELSE -(((-value) \div DecimalUnit(dp)) * DecimalUnit(dp))

normalized_size(size, fallback) ==
    LET s == floor_dp(size, 2)
    IN  IF s = 0 THEN fallback ELSE s

\* allow_stop_loss with the end of the market tested by > in place of >=.
allow_stop_loss_late(market_timestamp, grace_seconds) ==
    IF now < market_timestamp
    THEN FALSE
    ELSE LET seconds_since_start == now - market_timestamp
         IN  IF seconds_since_start > MarketDuration
             THEN FALSE
             ELSE seconds_since_start >= grace_seconds

\* allow_trade with the grace boundary tested by < in place of <=.
allow_trade_strict(market_timestamp, grace_seconds) ==
    now < market_timestamp - grace_seconds

allow_stop_loss(market_timestamp, grace_seconds) ==
    IF now < market_timestamp
    THEN FALSE
    ELSE LET seconds_since_start == now - market_timestamp
         IN  IF seconds_since_start >= MarketDuration
             THEN FALSE
             ELSE seconds_since_start >= grace_seconds

allow_trade(market_timestamp, grace_seconds) ==
    now <= market_timestamp - grace_seconds

\* metrics.rs: RETRIES_TOTAL = register_int_counter_vec!("retries_total",
\* "Total retries", &["operation"]): the label names the metric declares.
RetriesTotalLabels == << "operation" >>

\* dto.rs: what Asset's Display writes.
Assets == {"btc", "eth", "sol", "xrp", "UNKNOWN"}

\* utils.rs: &[asset.to_string().as_str(), "get_order"], the label values
\* a failed attempt of `operation` supplies to RETRIES_TOTAL.
RetryLabelValues(asset, operation) == << asset, operation >>

\* prometheus MetricVec::with_label_values(vals) is
\* get_metric_with_label_values(vals).unwrap(): it yields the metric when
\* there are as many values as label names and panics otherwise.
with_label_values(names, vals) == Len(names) = Len(vals)

\* The next quarter-hour boundary strictly after now.
nearest_quarter_hour ==
    ((now \div MarketDuration) + 1) * MarketDuration


(***************************************************************************)
(* Values.                                                                 *)
(***************************************************************************)
TerminalStatuses == {"MATCHED", "CANCELED"}

\* OpenOrderResponse: the fields the program reads.
Snapshot(o) == [status |-> o.status, size_matched |-> o.size_matched]

NoStatus == [status |-> "NONE", size_matched |-> 0]

\* HedgeConfig as utils.rs uses it (dto.rs fields plus initial_entry_price).
NoConfig == [second_order_id |-> 0, hedge_asset_id |-> "none",
             initial_asset_id |-> "none", hedge_size |-> 0,
             hedge_enter_price |-> 0, close_size |-> 0, timestamp |-> 0,
             initial_entry_price |-> 0]

NoResult == [returned |-> FALSE, val |-> 0, via |-> "none", window |-> 0,
             at |-> 0]
NoCancel == [id |-> 0, outcome |-> "none", prior_acks |-> 0, effect |-> FALSE]
NoUnwind == [started |-> FALSE, seen |-> "NONE", hedge |-> "NONE", exited |-> FALSE]
NoGate == [fn |-> "none", market_timestamp |-> 0, grace_seconds |-> 0,
           out |-> FALSE]
NoSizing == [size |-> 0, fallback |-> 0, called |-> FALSE, out |-> 0]
NoRetry == [max_retries |-> 0, asset |-> "NONE", attempt |-> 0, at |-> "idle",
            reads |-> 0, sleeps |-> 0, err |-> 0, out |-> "NONE"]
NoClosing == [close_size |-> 0, initial_entry_price |-> 0, price |-> 0,
              at |-> "idle", out |-> 0]
NoCloser == [max_retries |-> 0, asset |-> "NONE", attempt |-> 0, at |-> "idle",
             submits |-> 0, sleeps |-> 0, error_msg |-> "NONE", out |-> "NONE"]

NoQuarter == [offset |-> 0, at |-> "idle", out |-> 0]

mainLocals == << timestamp, opened, first_order_id, second_order_id,
                 first_order_status, second_order_status >>
tally == << win_count, loss_count, completed_timestamps >>
hedgeLocals == << caller, hedge_config, ph_order_id, sibling_status, hedge_size,
                  hedge_order_id, hedge_order_status, exit_price, exit_order_id >>
calls == << gate, sizing, retry, closing, closer, quarter >>
environment == << now, cfg, calls >>
network == << faults, venue_policy >>

(***************************************************************************)
(* The venue (OrderGateway).  It is outside the repository: an order is    *)
(* LIVE until the venue matches or cancels it, a terminal order never      *)
(* changes again, and every call may fail while faults remain.  Whether a  *)
(* cancel of an order that is already MATCHED, or already CANCELED, is     *)
(* acknowledged as a no-op or rejected is the venue's policy: it is fixed, *)
(* per status, by the first such cancel of a behaviour.                    *)
(***************************************************************************)
NewOrder(otype, asset, size, price, status) ==
    [status |-> status,
     size_matched |-> IF status = "MATCHED" THEN size ELSE 0,
     size |-> size, price |-> price, otype |-> otype, asset |-> asset,
     acks |-> 0, effects |-> 0]

\* A terminal order that the program holds no id of any more: the venue never
\* changes it and the program never reads it, so its details are dropped.
Archived == [status |-> "ARCHIVED", size_matched |-> 0, size |-> 0, price |-> 0,
             otype |-> "none", asset |-> "none", acks |-> 0, effects |-> 0]

Archive(table) ==
    [i \in DOMAIN table |->
        IF table[i].status \in TerminalStatuses THEN Archived ELSE table[i]]

\* A killed FOK order never rested on the book and the program drops its id:
\* when it is the newest entry of the table the entry itself is dropped.
Forget(table, id) ==
    IF id = Len(table)
    THEN SubSeq(table, 1, Len(table) - 1)
    ELSE [table EXCEPT ![id] = Archived]

\* The process is running: main has neither returned an error nor panicked.
Running == pc \notin {"crashed", "panicked"}

\* What the gateway may answer to cancel_order(id).
CancelOutcomes(id) ==
    (IF orders[id].status = "LIVE" THEN {"ack"}
     ELSE IF venue_policy[orders[id].status] = "undecided" THEN {"ack", "reject"}
     ELSE {venue_policy[orders[id].status]})
    \cup (IF faults > 0 THEN {"failed"} ELSE {})

\* The order table after cancel_order(id) was answered with `out`: only an
\* acknowledged cancel of a LIVE order changes the order.
Cancelled(id, out) ==
    LET eff == out = "ack" /\ orders[id].status = "LIVE"
    IN  [orders EXCEPT ![id] =
            [@ EXCEPT !.status = IF eff THEN "CANCELED" ELSE @,
                      !.acks = IF out = "ack" THEN @ + 1 ELSE @,
                      !.effects = IF eff THEN @ + 1 ELSE @]]

\* client.cancel_order(id) answered with `out`, but for the order table.
CancelAnswer(id, out) ==
    /\ out \in CancelOutcomes(id)
    /\ last_cancel' = [id |-> id, outcome |-> out,
                       prior_acks |-> orders[id].acks,
                       effect |-> out = "ack" /\ orders[id].status = "LIVE"]
    /\ faults' = IF out = "failed" THEN faults - 1 ELSE faults
    /\ venue_policy' = IF out \in {"ack", "reject"}
                          /\ orders[id].status \in TerminalStatuses
                       THEN [venue_policy EXCEPT ![orders[id].status] = out]
                       ELSE venue_policy

\* client.cancel_order(id) answered with `out`.
cancel_order(id, out) ==
    /\ CancelAnswer(id, out)
    /\ orders' = Cancelled(id, out)

\* What a gateway call other than cancel may answer.
CallOutcomes == {"ok"} \cup (IF faults > 0 THEN {"err"} ELSE {})

Failed(out) ==
    /\ out = "err"
    /\ faults' = faults - 1
    /\ UNCHANGED venue_policy

\* The orders the program still holds the id of.  What the venue does to an
\* order that no call will name again cannot reach the program; such an order
\* is left as it is.
Tracked ==
    ({first_order_id, second_order_id, hedge_order_id, exit_order_id}
        \cup {opened[i] : i \in DOMAIN opened}) \ {0}

\* The venue fills a resting order, partly or wholly, or reports it MATCHED.
VenueFill(id) ==
    /\ Running
    /\ orders[id].status = "LIVE"
    /\ \E s \in SizeValues \cup {orders[id].size}, st \in {"LIVE", "MATCHED"} :
          /\ s >= orders[id].size_matched
          /\ s <= orders[id].size
          /\ st = "LIVE" => s > orders[id].size_matched /\ s < orders[id].size
          /\ orders' = [orders EXCEPT ![id] =
                 [@ EXCEPT !.status = st, !.size_matched = s]]
    /\ UNCHANGED << environment, network, pc, mainLocals, tally, hedgeLocals,
                    cycles, result, last_cancel, unwind >>

\* The venue cancels a resting order on its own initiative.
VenueCancel(id) ==
    /\ Running
    /\ orders[id].status = "LIVE"
    /\ orders' = [orders EXCEPT ![id] = [@ EXCEPT !.status = "CANCELED"]]
    /\ UNCHANGED << environment, network, pc, mainLocals, tally, hedgeLocals,
                    cycles, result, last_cancel, unwind >>

\* The positions of the program whose next step reads the clock.
ClockReaders == {"main_top", "poll_first", "poll_second", "m_gate", "x_place"}

\* The wall clock reaches the next sampled instant.  Time that passes before
\* a step that does not read the clock is taken before the next one that does.
Tick ==
    /\ pc \in ClockReaders
    /\ \E t \in ClockPoints :
          /\ t > now
          /\ \A u \in ClockPoints : u > now => t <= u
          /\ now' = t
    /\ UNCHANGED << cfg, calls, orders, network, pc, mainLocals,
                    tally, hedgeLocals, cycles, result, last_cancel, unwind >>

(***************************************************************************)
(* Init: the state main() is in when it enters its outer loop.             *)
(***************************************************************************)
Fresh ==
    /\ orders = << >>
    /\ faults = MaxFaults
    /\ venue_policy = [s \in TerminalStatuses |-> "undecided"]
    /\ pc = "main_top"
    /\ opened = << >>
    /\ first_order_id = 0
    /\ second_order_id = 0
    /\ first_order_status = NoStatus
    /\ second_order_status = NoStatus
    /\ win_count = 0
    /\ loss_count = 0
    /\ completed_timestamps = << >>
    /\ caller = "none"
    /\ hedge_config = NoConfig
    /\ ph_order_id = 0
    /\ sibling_status = NoStatus
    /\ hedge_size = 0
    /\ hedge_order_id = 0
    /\ hedge_order_status = NoStatus
    /\ exit_price = 0
    /\ exit_order_id = 0
    /\ cycles = << >>
    /\ result = NoResult
    /\ last_cancel = NoCancel
    /\ unwind = NoUnwind

Idle ==
    /\ cfg \in Configs
    /\ Fresh

Init ==
    /\ now = 0
    /\ timestamp = 0
    /\ gate = NoGate
    /\ sizing = NoSizing
    /\ retry = NoRetry
    /\ closing = NoClosing
    /\ closer = NoCloser
    /\ quarter = NoQuarter
    /\ Idle

(***************************************************************************)
(* The strategy loop: src/eth/src/main.rs.                                 *)
(***************************************************************************)
\* main: floor_dp(size_matched, 2), replaced by order_size when zero.
matched_size(status) ==
    LET m == floor_dp(status.size_matched, 2)
    IN  IF m = 0 THEN cfg.order_size ELSE m

\* A HedgeConfig that names the leg with the position as the one to cancel
\* and to hedge on.
BuildHedgeConfigOwnLeg(leg, size, close) ==
    [second_order_id |-> IF leg = "first" THEN first_order_id ELSE second_order_id,
     hedge_asset_id |-> leg,
     initial_asset_id |-> leg,
     hedge_size |-> size,
     hedge_enter_price |-> cfg.hedge_enter_price,
     close_size |-> close,
     timestamp |-> timestamp,
     initial_entry_price |-> cfg.limit_enter_price]

\* main: the HedgeConfig built when leg `leg` is the one with the position.
\* eth main leaves initial_entry_price out; it is the entry limit price.
BuildHedgeConfig(leg, size, close) ==
    [second_order_id |-> IF leg = "first" THEN second_order_id ELSE first_order_id,
     hedge_asset_id |-> IF leg = "first" THEN "second" ELSE "first",
     initial_asset_id |-> leg,
     hedge_size |-> size,
     hedge_enter_price |-> cfg.hedge_enter_price,
     close_size |-> close,
     timestamp |-> timestamp,
     initial_entry_price |-> cfg.limit_enter_price]

\* main: the leg whose match branch runs (the first leg is tested first).
MatchedLeg ==
    IF first_order_status.status = "MATCHED" THEN "first" ELSE "second"

MatchedStatus ==
    IF MatchedLeg = "first" THEN first_order_status ELSE second_order_status

\* main: the hedge_size the match branch puts in the HedgeConfig.
match_hedge_size(status) == cfg.order_size

\* The window-gate test of the entry loop on a leg's snapshot.
forced_exit(status) ==
    /\ ~allow_trade(timestamp, HoldGrace)
    /\ status.status = "LIVE"
    /\ status.size_matched # 0

\* loop { let timestamp = nearest_quarter_hour(); if !allow_trade(..) {..} get_tokens }
\* The history variables of the previous cycle are cleared here.
MainTop ==
    /\ pc = "main_top"
    /\ timestamp' = nearest_quarter_hour
    /\ \E out \in CallOutcomes :
          IF ~allow_trade(nearest_quarter_hour, EntryGrace)
          THEN /\ out = "ok"
               /\ pc' = "main_top"
               /\ UNCHANGED network
          ELSE \/ /\ out = "ok"
                  /\ pc' = "open_first"
                  /\ UNCHANGED network
               \/ /\ Failed(out)
                  /\ pc' = "panicked"
    /\ result' = NoResult
    /\ last_cancel' = NoCancel
    /\ unwind' = NoUnwind
    /\ UNCHANGED << environment, orders, opened, first_order_id,
                    second_order_id, first_order_status, second_order_status,
                    tally, hedgeLocals, cycles >>

\* open_start_positions: the first leg is posted.
OpenFirst ==
    /\ pc = "open_first"
    /\ Len(orders) < MaxOrders
    /\ \E out \in CallOutcomes :
          \/ /\ out = "ok"
             /\ orders' = Append(orders, NewOrder("GTC", "first", cfg.order_size,
                                   cfg.limit_enter_price, "LIVE"))
             /\ opened' = << Len(orders) + 1 >>
             /\ pc' = "open_second"
             /\ UNCHANGED network
          \/ /\ Failed(out)
             /\ pc' = "open_first"
             /\ UNCHANGED << orders, opened >>
    /\ UNCHANGED << environment, timestamp, first_order_id, second_order_id,
                    first_order_status, second_order_status, tally,
                    hedgeLocals, cycles, result, unwind >>
    /\ last_cancel' = NoCancel

\* open_start_positions: the second leg is posted; Ok(Some(orders)) returns.
OpenSecond ==
    /\ pc = "open_second"
    /\ Len(orders) < MaxOrders
    /\ \E out \in CallOutcomes :
          \/ /\ out = "ok"
             /\ orders' = Append(orders, NewOrder("GTC", "second", cfg.order_size,
                                   cfg.limit_enter_price, "LIVE"))
             /\ first_order_id' = opened[1]
             /\ second_order_id' = Len(orders) + 1
             /\ pc' = "poll_first"
             /\ UNCHANGED network
          \/ /\ Failed(out)
             /\ pc' = "open_first"
             /\ UNCHANGED << orders, first_order_id, second_order_id >>
    /\ opened' = << >>
    /\ UNCHANGED << environment, timestamp, first_order_status,
                    second_order_status, tally, hedgeLocals, cycles, result, unwind >>
    /\ last_cancel' = NoCancel

\* The first leg is read; the window gate is tested on it.
PollFirst ==
    /\ pc = "poll_first"
    /\ \E out \in CallOutcomes :
          \/ /\ out = "ok"
             /\ UNCHANGED network
             /\ LET st == Snapshot(orders[first_order_id])
                IN  /\ first_order_status' = st
                    /\ IF forced_exit(st)
                       THEN /\ hedge_config' = BuildHedgeConfig("first",
                                   matched_size(st), matched_size(st))
                            /\ ph_order_id' = second_order_id
                            /\ caller' = "prevent"
                            /\ pc' = "ph_cancel"
                       ELSE /\ pc' = "poll_second"
                            /\ UNCHANGED << hedge_config, ph_order_id, caller >>
          \/ /\ Failed(out)
             /\ pc' = "crashed"
             /\ UNCHANGED << first_order_status, hedge_config, ph_order_id, caller >>
    /\ UNCHANGED << environment, orders, timestamp, opened, first_order_id,
                    second_order_id, second_order_status, tally, sibling_status,
                    hedge_size, hedge_order_id, hedge_order_status, exit_price,
                    exit_order_id, cycles, result, unwind >>
    /\ last_cancel' = NoCancel

\* The second leg is read; the window gate is tested on it, then the two
\* snapshots are tested for MATCHED, the first leg first.  When neither is,
\* the loop body ends and both snapshots go out of scope.
PollSecond ==
    /\ pc = "poll_second"
    /\ \E out \in CallOutcomes :
          \/ /\ out = "ok"
             /\ UNCHANGED network
             /\ LET st == Snapshot(orders[second_order_id])
                IN  /\ IF forced_exit(st)
                       THEN /\ second_order_status' = st
                            /\ hedge_config' = BuildHedgeConfig("second",
                                   matched_size(st), matched_size(st))
                            /\ ph_order_id' = second_order_id
                            /\ caller' = "prevent"
                            /\ pc' = "ph_cancel"
                            /\ UNCHANGED first_order_status
                       ELSE /\ IF first_order_status.status = "MATCHED"
                                  \/ st.status = "MATCHED"
                               THEN /\ pc' = "match_cancel"
                                    /\ second_order_status' = st
                                    /\ UNCHANGED first_order_status
                               ELSE /\ pc' = "poll_first"
                                    /\ second_order_status' = NoStatus
                                    /\ first_order_status' = NoStatus
                            /\ UNCHANGED << hedge_config, ph_order_id, caller >>
          \/ /\ Failed(out)
             /\ pc' = "crashed"
             /\ UNCHANGED << first_order_status, second_order_status,
                             hedge_config, ph_order_id, caller >>
    /\ UNCHANGED << environment, orders, timestamp, opened, first_order_id,
                    second_order_id, tally, sibling_status,
                    hedge_size, hedge_order_id, hedge_order_status, exit_price,
                    exit_order_id, cycles, result, unwind >>
    /\ last_cancel' = NoCancel

\* A hedge cycle starts: manage_position_after_match is entered.
StartCycle ==
    /\ pc' = "m_read1"
    /\ cycles' = Append(cycles, timestamp)
    /\ result' = NoResult
    /\ unwind' = NoUnwind

\* Match branch: client.cancel_order(sibling).await?; HedgeConfig {..};
\* manage_position_after_match(..) is called.
MatchCancel ==
    /\ pc = "match_cancel"
    /\ \E out \in CancelOutcomes(BuildHedgeConfig(MatchedLeg, 0, 0).second_order_id) :
          /\ cancel_order(BuildHedgeConfig(MatchedLeg, 0, 0).second_order_id, out)
          /\ IF out = "ack"
             THEN /\ hedge_config' = BuildHedgeConfig(MatchedLeg,
                         match_hedge_size(MatchedStatus), matched_size(MatchedStatus))
                  /\ caller' = "match"
                  /\ StartCycle
             ELSE /\ pc' = "crashed"
                  /\ UNCHANGED << hedge_config, caller, cycles, result, unwind >>
    /\ UNCHANGED << environment, mainLocals, tally, ph_order_id, sibling_status,
                    hedge_size, hedge_order_id, hedge_order_status, exit_price,
                    exit_order_id >>

(***************************************************************************)
(* prevent_holding_position: src/common/src/utils.rs.                      *)
(***************************************************************************)
\* get_order_with_retry(.., &hedge_config.asset).await?: a read that fails
\* updates RETRIES_TOTAL first, and with_label_values panics when the values
\* do not fit the label names; otherwise the error of the read is returned
\* by manage and, through the `?` of its caller and of main, ends the process.
read_error(out) ==
    /\ Failed(out)
    /\ pc' = IF with_label_values(RetriesTotalLabels,
                     RetryLabelValues(cfg.asset, "get_order"))
             THEN "crashed" ELSE "panicked"

\* client.cancel_order(&prevent_holding_config.order_id).await?
PreventCancel ==
    /\ pc = "ph_cancel"
    /\ \E out \in CancelOutcomes(ph_order_id) :
          /\ cancel_order(ph_order_id, out)
          /\ pc' = IF out = "ack" THEN "ph_read" ELSE "crashed"
    /\ UNCHANGED << environment, mainLocals, tally, hedgeLocals, cycles, result,
                    unwind >>

\* The cancelled order is re-read, true_hedge_config is built from its
\* size_matched and manage_position_after_match is called.
PreventRead ==
    /\ pc = "ph_read"
    /\ \E out \in CallOutcomes :
          \/ /\ out = "ok"
             /\ UNCHANGED network
             /\ LET first_order_size ==
                        normalized_size(orders[ph_order_id].size_matched,
                                        hedge_config.hedge_size)
                IN  hedge_config' = [hedge_config EXCEPT
                                        !.hedge_size = first_order_size,
                                        !.close_size = first_order_size]
             /\ StartCycle
          \/ /\ read_error(out)
             /\ UNCHANGED << hedge_config, cycles, result, unwind >>
    /\ UNCHANGED << environment, orders, mainLocals, tally, caller, ph_order_id,
                    sibling_status, hedge_size, hedge_order_id,
                    hedge_order_status, exit_price, exit_order_id >>
    /\ last_cancel' = NoCancel

(***************************************************************************)
(* manage_position_after_match: src/common/src/utils.rs.                   *)
(***************************************************************************)
HedgeMatchedResult == 1     \* return Ok(1) after "Hedge order matched"
ExitMatchedResult == 1      \* return Ok(1) in the market-exit loop

\* The sibling cancelled whatever its status was read to be.
needs_cancel_always(status) == TRUE

\* if second_order_status.status != "CANCELED"
needs_cancel(status) == status # "CANCELED"

\* The corrected size without the test of its sign.
corrected_hedge_size_signed(config_size, sibling_matched) ==
    IF sibling_matched > 0
    THEN floor_dp(sibling_matched, 2) - config_size
    ELSE config_size

\* let mut hedge_size = ..; if second_order_status.size_matched > 0 { .. }
corrected_hedge_size(config_size, sibling_matched) ==
    IF sibling_matched > 0
    THEN LET closing_second_size == floor_dp(sibling_matched, 2)
         IN  IF closing_second_size - config_size < 0
             THEN config_size - closing_second_size
             ELSE closing_second_size - config_size
    ELSE config_size

\* The exit size left as the quotient, not cut to 2 decimal places.
closing_hedge_size_untruncated(close_size, initial_entry_price, price) ==
    (close_size * initial_entry_price) \div (100 - price)

\* normalized_size((close_size * initial_entry_price) / (1 - price), 0);
\* the quotient of sizes in thousandths and prices in hundredths.
closing_hedge_size(close_size, initial_entry_price, price) ==
    normalized_size(((close_size * initial_entry_price) \div ((100 - price) * 10)) * 10, 0)

\* hedge_result.signum() decides the tally; the window is recorded.
Return(val, via) ==
    /\ result' = [returned |-> TRUE, val |-> val, via |-> via,
                  window |-> hedge_config.timestamp, at |-> now]
    /\ pc' = "main_top"
    /\ orders' = Archive(orders)
    /\ IF caller = "match"
       THEN /\ win_count' = IF val > 0 THEN win_count + 1 ELSE win_count
            /\ loss_count' = IF val < 0 THEN loss_count + 1 ELSE loss_count
            /\ completed_timestamps' = Append(completed_timestamps, timestamp)
       ELSE UNCHANGED tally
    /\ timestamp' = 0
    /\ first_order_id' = 0
    /\ second_order_id' = 0
    /\ first_order_status' = NoStatus
    /\ second_order_status' = NoStatus
    /\ caller' = "none"
    /\ hedge_config' = NoConfig
    /\ ph_order_id' = 0
    /\ sibling_status' = NoStatus
    /\ hedge_size' = 0
    /\ hedge_order_id' = 0
    /\ hedge_order_status' = NoStatus
    /\ exit_price' = 0
    /\ exit_order_id' = 0

\* The sibling leg is read.
ManageRead ==
    /\ pc = "m_read1"
    /\ \E out \in CallOutcomes :
          \/ /\ out = "ok"
             /\ UNCHANGED network
             /\ pc' = IF needs_cancel(orders[hedge_config.second_order_id].status)
                      THEN "m_cancel" ELSE "m_read2"
          \/ /\ read_error(out)
    /\ UNCHANGED << environment, orders, mainLocals, tally, hedgeLocals, cycles,
                    result, unwind >>
    /\ last_cancel' = NoCancel

\* client.cancel_order(hedge_config.second_order_id).await?
ManageCancel ==
    /\ pc = "m_cancel"
    /\ \E out \in CancelOutcomes(hedge_config.second_order_id) :
          /\ cancel_order(hedge_config.second_order_id, out)
          /\ pc' = IF out = "ack" THEN "m_read2" ELSE "crashed"
    /\ UNCHANGED << environment, mainLocals, tally, hedgeLocals, cycles, result,
                    unwind >>

\* The corrected size written back into the HedgeConfig.
hedge_config_resized(config, size) == [config EXCEPT !.hedge_size = size]

\* let mut hedge_size = hedge_config.hedge_size: the corrected size is a
\* local of its own; hedge_config is not a mut binding and stays as given.
hedge_config_after_sizing(config, size) == config

\* The sibling leg is re-read and the hedge size is corrected.  This is the
\* last call of the cycle that names an entry leg.
ManageReread ==
    /\ pc = "m_read2"
    /\ \E out \in CallOutcomes :
          \/ /\ out = "ok"
             /\ UNCHANGED network
             /\ sibling_status' = Snapshot(orders[hedge_config.second_order_id])
             /\ hedge_size' = corrected_hedge_size(hedge_config.hedge_size,
                                  orders[hedge_config.second_order_id].size_matched)
             /\ hedge_config' = hedge_config_after_sizing(hedge_config,
                                  corrected_hedge_size(hedge_config.hedge_size,
                                      orders[hedge_config.second_order_id].size_matched))
             /\ orders' = Archive(orders)
             /\ pc' = "m_place"
          \/ /\ read_error(out)
             /\ UNCHANGED << orders, sibling_status, hedge_size, hedge_config >>
    /\ UNCHANGED << environment, mainLocals, tally, caller,
                    ph_order_id, hedge_order_id, hedge_order_status, exit_price,
                    exit_order_id, cycles, result, unwind >>
    /\ last_cancel' = NoCancel

\* OrderType::GTC of the hedge order
hedge_order_type == "GTC"

\* place_hedge_order(.., hedge_size, hedge_enter_price, .., OrderType::GTC).
\* The snapshots of the legs and the computed size are not read after it.
ManagePlace ==
    /\ pc = "m_place"
    /\ Len(orders) < MaxOrders
    /\ \E out \in CallOutcomes :
          \/ /\ out = "ok"
             /\ UNCHANGED network
             /\ orders' = Append(orders, NewOrder(hedge_order_type,
                                   hedge_config.hedge_asset_id, hedge_size, hedge_config.hedge_enter_price,
                                   "LIVE"))
             /\ hedge_order_id' = Len(orders) + 1
             /\ first_order_status' = NoStatus
             /\ second_order_status' = NoStatus
             /\ sibling_status' = NoStatus
             /\ hedge_size' = 0
             /\ pc' = "m_poll"
          \/ /\ Failed(out)
             /\ pc' = "crashed"
             /\ UNCHANGED << orders, hedge_order_id, first_order_status,
                             second_order_status, sibling_status, hedge_size >>
    /\ UNCHANGED << environment, timestamp, opened, first_order_id,
                    second_order_id, tally, caller, hedge_config, ph_order_id,
                    hedge_order_status, exit_price, exit_order_id, cycles,
                    result, unwind >>
    /\ last_cancel' = NoCancel

\* The Matched test made only behind the stop-loss test.
hedge_matched_behind_stop_loss(status) ==
    /\ status = "MATCHED"
    /\ ~allow_stop_loss(hedge_config.timestamp, StopLossGrace)

\* if hedge_order_status.status == "MATCHED" { ... return Ok(1); }
hedge_matched(status) == status = "MATCHED"

\* Hedge poll: the hedge order is read; MATCHED returns Ok(1).
ManagePoll ==
    /\ pc = "m_poll"
    /\ \E out \in CallOutcomes :
          \/ /\ out = "ok"
             /\ UNCHANGED network
             /\ IF hedge_matched(orders[hedge_order_id].status)
                THEN Return(HedgeMatchedResult, "hedge")
                ELSE /\ pc' = "m_gate"
                     /\ hedge_order_status' = Snapshot(orders[hedge_order_id])
                     /\ UNCHANGED << orders, mainLocals, tally, caller,
                                     hedge_config, ph_order_id, sibling_status,
                                     hedge_size, hedge_order_id, exit_price,
                                     exit_order_id, result >>
          \/ /\ read_error(out)
             /\ UNCHANGED << orders, mainLocals, tally, hedgeLocals, result >>
    /\ UNCHANGED << environment, opened, cycles, unwind >>
    /\ last_cancel' = NoCancel

\* The stop-loss test without its window gate.
stop_loss_due_ungated ==
    hedge_order_status.status # "MATCHED"

\* if hedge_order_status.status != "MATCHED" && allow_stop_loss(timestamp, 60)
stop_loss_due ==
    /\ hedge_order_status.status # "MATCHED"
    /\ allow_stop_loss(hedge_config.timestamp, StopLossGrace)

\* client.cancel_order(hedge_order_id) of the stop-loss unwind.  Once it is
\* acknowledged the hedge order is terminal and no later call names it.
StopLossCancel(out) ==
    /\ CancelAnswer(hedge_order_id, out)
    /\ orders' = IF out = "ack"
                 THEN [orders EXCEPT ![hedge_order_id] = Archived]
                 ELSE Cancelled(hedge_order_id, out)
    /\ unwind' = [started |-> TRUE, seen |-> hedge_order_status.status,
                  hedge |-> Cancelled(hedge_order_id, out)[hedge_order_id].status,
                  exited |-> FALSE]

\* After sleep(1): the stop-loss test; when due, the hedge order is cancelled
\* and the market-exit loop is entered.  The snapshot of the poll goes out of
\* scope with the iteration.
ManageStopLoss ==
    /\ pc = "m_gate"
    /\ IF stop_loss_due
       THEN /\ \E out \in CancelOutcomes(hedge_order_id) :
                  /\ StopLossCancel(out)
                  /\ pc' = IF out = "ack" THEN "x_price" ELSE "crashed"
                  /\ hedge_order_id' = IF out = "ack" THEN 0 ELSE hedge_order_id
       ELSE /\ pc' = "m_poll"
            /\ last_cancel' = NoCancel
            /\ UNCHANGED << orders, network, unwind, hedge_order_id >>
    /\ hedge_order_status' = NoStatus
    /\ UNCHANGED << environment, mainLocals, tally, caller, hedge_config,
                    ph_order_id, sibling_status, hedge_size,
                    exit_price, exit_order_id, cycles, result >>

\* Market-exit loop: get_asset_price(hedge_asset_id); the exit size divides
\* by (1 - price), and Decimal division by zero panics.
ExitPrice ==
    /\ pc = "x_price"
    /\ \E out \in CallOutcomes :
          \/ /\ out = "ok"
             /\ UNCHANGED network
             /\ \E p \in PriceValues :
                   /\ exit_price' = p
                   /\ pc' = IF p = 100 THEN "panicked" ELSE "x_place"
          \/ /\ Failed(out)
             /\ pc' = "crashed"
             /\ UNCHANGED exit_price
    /\ UNCHANGED << environment, orders, mainLocals, tally, caller, hedge_config,
                    ph_order_id, sibling_status, hedge_size, hedge_order_id,
                    hedge_order_status, exit_order_id, cycles, result, unwind >>
    /\ last_cancel' = NoCancel

\* The exit order left on the book like the hedge order.
exit_order_type_gtc == "GTC"

\* OrderType::FOK of the market-exit orders
exit_order_type == "FOK"

\* place_hedge_order(.., closing_hedge_size, price, .., OrderType::FOK): the
\* venue fills the order at once or kills it.
ExitPlace ==
    /\ pc = "x_place"
    /\ Len(orders) < MaxOrders
    /\ \E out \in CallOutcomes :
          \/ /\ out = "ok"
             /\ UNCHANGED network
             /\ \E st \in TerminalStatuses :
                   orders' = Append(orders, NewOrder(exit_order_type,
                                 hedge_config.hedge_asset_id,
                                 closing_hedge_size(hedge_config.close_size,
                                     hedge_config.initial_entry_price, exit_price),
                                 exit_price, st))
             /\ exit_order_id' = Len(orders) + 1
             /\ unwind' = [unwind EXCEPT !.exited = TRUE]
             /\ pc' = "x_read"
          \/ /\ Failed(out)
             /\ pc' = "crashed"
             /\ UNCHANGED << orders, exit_order_id, unwind >>
    /\ UNCHANGED << environment, mainLocals, tally, caller, hedge_config,
                    ph_order_id, sibling_status, hedge_size, hedge_order_id,
                    hedge_order_status, exit_price, cycles, result >>
    /\ last_cancel' = NoCancel

\* The exit order submitted again without a new price.
after_exit_unmatched_resubmit == "x_place"

\* The exit loop's body starts over: the price is fetched again.
after_exit_unmatched == "x_price"

\* After sleep(5): the exit order is read; MATCHED returns, otherwise the
\* loop fetches the price again.
ExitRead ==
    /\ pc = "x_read"
    /\ \E out \in CallOutcomes :
          \/ /\ out = "ok"
             /\ UNCHANGED network
             /\ IF orders[exit_order_id].status = "MATCHED"
                THEN Return(ExitMatchedResult, "exit")
                ELSE /\ pc' = after_exit_unmatched
                     /\ orders' = Forget(orders, exit_order_id)
                     /\ exit_price' = 0
                     /\ exit_order_id' = 0
                     /\ UNCHANGED << mainLocals, tally, caller, hedge_config,
                                     ph_order_id, sibling_status, hedge_size,
                                     hedge_order_id, hedge_order_status, result >>
          \/ /\ read_error(out)
             /\ UNCHANGED << orders, mainLocals, tally, hedgeLocals, result >>
    /\ UNCHANGED << environment, opened, cycles, unwind >>
    /\ last_cancel' = NoCancel

manage_position_after_match ==
    \/ ManageRead
    \/ ManageCancel
    \/ ManageReread
    \/ ManagePlace
    \/ ManagePoll
    \/ ManageStopLoss
    \/ ExitPrice
    \/ ExitPlace
    \/ ExitRead

prevent_holding_position ==
    \/ PreventCancel
    \/ PreventRead

Venue ==
    \E id \in Tracked : VenueFill(id) \/ VenueCancel(id)

Next ==
    \/ MainTop
    \/ OpenFirst
    \/ OpenSecond
    \/ PollFirst
    \/ PollSecond
    \/ MatchCancel
    \/ prevent_holding_position
    \/ manage_position_after_match
    \/ Venue
    \/ Tick

Spec == Init /\ [][Next]_vars

(***************************************************************************)
(* One window: the strategy loop from its start to the end of the first    *)
(* window it trades, i.e. one full run of the position state machine.      *)
(***************************************************************************)
MainTopOnce ==
    /\ Len(orders) = 0
    /\ MainTop

NextWindow ==
    \/ MainTopOnce
    \/ OpenFirst
    \/ OpenSecond
    \/ PollFirst
    \/ PollSecond
    \/ MatchCancel
    \/ prevent_holding_position
    \/ manage_position_after_match
    \/ Venue
    \/ Tick

SpecWindow == Init /\ [][NextWindow]_vars

\* The steps of the program itself, the venue and the clock left out.
ProgramStep ==
    \/ MainTopOnce
    \/ OpenFirst
    \/ OpenSecond
    \/ PollFirst
    \/ PollSecond
    \/ MatchCancel
    \/ prevent_holding_position
    \/ manage_position_after_match

\* One window with progress: the process is never stopped for ever while it
\* has a step to take (every gateway call returns, every sleep ends), and
\* the clock goes on through every sampled instant.  The venue owes nothing.
SpecWindowLive ==
    /\ Init
    /\ [][NextWindow]_vars
    /\ WF_vars(ProgramStep)
    /\ SF_vars(Tick)

(***************************************************************************)
(* The window-gate functions on their own: the clock and the arguments are *)
(* drawn from every second within GateSpan of a boundary of either         *)
(* function, and each call records its arguments and its result in `gate`. *)
(***************************************************************************)
GateBoundaries ==
    {0, MarketDuration} \cup GateGraces \cup {-g : g \in GateGraces}

\* now - market_timestamp, within GateSpan of a boundary.
GateOffsets ==
    UNION {(b - GateSpan)..(b + GateSpan) : b \in GateBoundaries}

GateWindows == {w * MarketDuration : w \in 1..MaxWindow}

InitGate ==
    /\ timestamp \in GateWindows
    /\ now \in {timestamp + d : d \in GateOffsets}
    /\ gate = NoGate
    /\ sizing = NoSizing
    /\ retry = NoRetry
    /\ closing = NoClosing
    /\ closer = NoCloser
    /\ quarter = NoQuarter
    /\ Idle

CallAllowStopLoss ==
    /\ \E g \in GateGraces :
          gate' = [fn |-> "allow_stop_loss", market_timestamp |-> timestamp,
                   grace_seconds |-> g, out |-> allow_stop_loss(timestamp, g)]
    /\ UNCHANGED << now, cfg, sizing, retry, closing, closer, quarter, orders, network, pc, mainLocals,
                    tally, hedgeLocals, cycles, result, last_cancel, unwind >>

CallAllowTrade ==
    /\ \E g \in GateGraces :
          gate' = [fn |-> "allow_trade", market_timestamp |-> timestamp,
                   grace_seconds |-> g, out |-> allow_trade(timestamp, g)]
    /\ UNCHANGED << now, cfg, sizing, retry, closing, closer, quarter, orders, network, pc, mainLocals,
                    tally, hedgeLocals, cycles, result, last_cancel, unwind >>

NextGate ==
    \/ CallAllowStopLoss
    \/ CallAllowTrade

SpecGate == InitGate /\ [][NextGate]_vars

C1_ExitReturnsLoss ==
    result.returned =>
        /\ result.via = "exit" => result.val = -1
        /\ result.val = 1 => result.via = "hedge"

\* C2: for a HedgeConfig with hedge_size > 0 the GTC hedge order about to be
\* placed has a strictly positive size, at most hedge_size plus the fill of
\* the sibling observed at the re-read.
C2_HedgeSizePositive ==
    (pc = "m_place" /\ hedge_config.hedge_size > 0) =>
        /\ hedge_size > 0
        /\ hedge_size <= hedge_config.hedge_size + sibling_status.size_matched

\* Both entry legs are CANCELED with nothing matched as the entry loop sees
\* them: the first leg in its snapshot, the second at the read being made.
BothCanceled ==
    /\ pc = "poll_second"
    /\ first_order_status = [status |-> "CANCELED", size_matched |-> 0]
    /\ Snapshot(orders[second_order_id]) =
           [status |-> "CANCELED", size_matched |-> 0]

\* C3: when the entry loop reads both legs CANCELED with zero matched size,
\* it leaves the polling state: it does not go back to poll the legs again,
\* it starts no hedge cycle and it leaves the tallies as they are.
C3_BothCanceledLeaves ==
    [][BothCanceled =>
          /\ pc' # "poll_first"
          /\ cycles' = cycles
          /\ win_count' = win_count
          /\ loss_count' = loss_count]_vars

\* C4: in the match branch, when the sibling has no fill, the hedge order
\* about to be placed has the size normalized_size(size_matched of the
\* matched leg, order_size).
C4_HedgeFollowsFill ==
    (pc = "m_place" /\ caller = "match" /\ sibling_status.size_matched = 0) =>
        hedge_size = normalized_size(MatchedStatus.size_matched, cfg.order_size)

\* C5: no window timestamp has more than one hedge cycle started for it, and
\* the loop never opens positions for a window it has recorded as completed.
C5_OneCyclePerWindow ==
    /\ \A i, j \in DOMAIN cycles : i # j => cycles[i] # cycles[j]
    /\ pc = "open_first" =>
          \A i \in DOMAIN completed_timestamps :
              completed_timestamps[i] # timestamp

\* C6: a cancel takes effect on an order at most once, and a cancel call the
\* venue answers for an order on which a cancel was acknowledged before is
\* acknowledged again and changes nothing.
C6_CancelOnce ==
    /\ \A i \in DOMAIN orders : orders[i].effects <= 1
    /\ (last_cancel.prior_acks > 0 /\ last_cancel.outcome # "failed") =>
          /\ last_cancel.outcome = "ack"
          /\ ~last_cancel.effect

\* A second cancel of an order is acknowledged.
C6_Witness ==
    /\ last_cancel.prior_acks > 0
    /\ last_cancel.outcome = "ack"
    /\ orders[last_cancel.id].acks = 2

\* C7: a cancel call the venue rejects because the order is already MATCHED
\* or CANCELED is not an error of the program, which goes on to its next step.
C7_RejectTolerated ==
    last_cancel.outcome = "reject" => pc # "crashed"

\* The latest step of the program was the hedge cancel of the stop-loss
\* unwind: now is the instant of that call.
AtStopLossCancel ==
    /\ unwind.started
    /\ last_cancel.outcome # "none"

\* now is in the stop-loss window of the cycle: the grace has passed and the
\* 900 seconds of the market have not.
InStopLossWindow ==
    /\ now - hedge_config.timestamp >= 60
    /\ now - hedge_config.timestamp < 900

SizeInputs == ((-SizeSpan)..SizeSpan) \cup SizeSamples

InitSize ==
    /\ now = 0
    /\ timestamp = 0
    /\ gate = NoGate
    /\ retry = NoRetry
    /\ closing = NoClosing
    /\ closer = NoCloser
    /\ quarter = NoQuarter
    /\ sizing \in [size : SizeInputs, fallback : Fallbacks, called : {FALSE},
                   out : {0}]
    /\ Idle

CallNormalizedSize ==
    /\ ~sizing.called
    /\ sizing' = [sizing EXCEPT !.called = TRUE,
                                !.out = normalized_size(sizing.size, sizing.fallback)]
    /\ UNCHANGED << now, cfg, gate, retry, closing, closer, quarter, orders, network, pc, mainLocals,
                    tally, hedgeLocals, cycles, result, last_cancel, unwind >>

NextSize == CallNormalizedSize

SpecSize == InitSize /\ [][NextSize]_vars

\* The reported size cut to whole hundredths toward zero.
Truncated2 ==
    IF sizing.size >= 0
    THEN (sizing.size \div 10) * 10
    ELSE -(((-sizing.size) \div 10) * 10)

\* C11: normalized_size returns the reported size truncated toward zero to 2
\* decimal places when that is strictly positive, and the fallback whenever
\* the truncation is zero or negative.
C11_NormalizedSize ==
    sizing.called =>
        sizing.out = IF Truncated2 > 0 THEN Truncated2 ELSE sizing.fallback

(***************************************************************************)
(* get_order_with_retry on its own.  max_retries is drawn from             *)
(* 0..MaxAttempts (a usize; every caller passes 10), each client.order     *)
(* call succeeds or fails as the network decides, and the error of the     *)
(* n-th call is named n.  reads and sleeps count the client.order calls    *)
(* and the one-second sleeps of the call.                                  *)
(***************************************************************************)
ReadStatuses == {"LIVE", "MATCHED"}

\* if attempt >= max_retries { return Err(err); }
exhausted(attempt, max_retries) == attempt >= max_retries

InitRetry ==
    /\ now = 0
    /\ timestamp = 0
    /\ gate = NoGate
    /\ sizing = NoSizing
    /\ closing = NoClosing
    /\ closer = NoCloser
    /\ quarter = NoQuarter
    /\ \E m \in 0..MaxAttempts, a \in Assets :
            retry = [NoRetry EXCEPT !.max_retries = m, !.asset = a, !.at = "call"]
    /\ Idle

RetryUnchanged ==
    UNCHANGED << now, cfg, gate, sizing, closing, closer, quarter, orders, network, pc, mainLocals,
                 tally, hedgeLocals, cycles, result, last_cancel, unwind >>

\* Ok(status) => return Ok(status)
RetryReadOk ==
    /\ retry.at = "call"
    /\ \E status \in ReadStatuses :
            retry' = [retry EXCEPT !.reads = @ + 1, !.at = "ok", !.out = status]
    /\ RetryUnchanged

\* Err(err) => attempt += 1, then RETRIES_TOTAL.with_label_values(..).inc(),
\* then the test of the cap.
RetryReadErr ==
    /\ retry.at = "call"
    /\ retry' = [retry EXCEPT
                    !.reads = @ + 1,
                    !.attempt = @ + 1,
                    !.err = retry.reads + 1,
                    !.at = IF ~with_label_values(RetriesTotalLabels,
                                  RetryLabelValues(retry.asset, "get_order"))
                           THEN "panicked"
                           ELSE IF exhausted(retry.attempt + 1, retry.max_retries)
                           THEN "err" ELSE "sleep"]
    /\ RetryUnchanged

\* sleep(Duration::from_millis(1000)), then the loop calls again
RetrySleep ==
    /\ retry.at = "sleep"
    /\ retry' = [retry EXCEPT !.sleeps = @ + 1, !.at = "call"]
    /\ RetryUnchanged

\* The sleep is behind the metric update, which every failed attempt ends in.
NextRetry == RetryReadOk \/ RetryReadErr

SpecRetry == InitRetry /\ [][NextRetry]_vars

\* C12: a call of get_order_with_retry whose reads all failed, as many as
\* the cap allows, has returned Err with the error of the last read.
C12_ReturnsLastError ==
    (retry.attempt > 0 /\ exhausted(retry.attempt, retry.max_retries))
        => (/\ retry.at = "err"
            /\ retry.err = retry.reads
            /\ retry.reads <= retry.max_retries)

\* C13: a failed read that leaves attempts is followed by one sleep and the
\* next read: behind every such failure the call sleeps or has slept.
C13_SleepAfterFailure ==
    (retry.attempt > 0 /\ ~exhausted(retry.attempt, retry.max_retries))
        => \/ retry.at = "sleep" /\ retry.sleeps = retry.attempt - 1
           \/ retry.at \in {"call", "ok"} /\ retry.sleeps = retry.attempt

\* C14: a poll of the hedge loop whose read shows the hedge order MATCHED
\* returns +1 at once: the step sends no cancel, places no order and starts
\* no unwind, whatever allow_stop_loss says at that moment.
C14_MatchedBeforeStopLoss ==
    [][(/\ pc = "m_poll"
        /\ pc' \notin {"m_poll", "crashed", "panicked"}
        /\ orders[hedge_order_id].status = "MATCHED")
       => (/\ pc' = "main_top"
           /\ result'.returned
           /\ result'.val = 1
           /\ result'.via = "hedge"
           /\ last_cancel' = NoCancel
           /\ Len(orders') <= Len(orders)
           /\ unwind' = unwind
           /\ ~unwind'.started)]_vars

C14_Witness ==
    /\ result.returned
    /\ result.via = "hedge"
    /\ result.val = 1
    /\ result.at - result.window >= StopLossGrace
    /\ result.at - result.window < MarketDuration
    /\ ~unwind.started

\* C15: when the window gate is closed and the leg just read is LIVE with
\* nothing filled (and no leg was read MATCHED), the poll sends a cancel for
\* that leg's own order id.
C15_UnfilledLegCanceled ==
    [][/\ (/\ pc = "poll_first"
           /\ pc' \notin {"poll_first", "crashed"}
           /\ ~allow_trade(timestamp, HoldGrace)
           /\ Snapshot(orders[first_order_id]) = [status |-> "LIVE", size_matched |-> 0])
          => (/\ last_cancel'.id = first_order_id
              /\ last_cancel'.outcome # "none")
       /\ (/\ pc = "poll_second"
           /\ pc' \notin {"poll_second", "crashed"}
           /\ ~allow_trade(timestamp, HoldGrace)
           /\ first_order_status.status # "MATCHED"
           /\ Snapshot(orders[second_order_id]) = [status |-> "LIVE", size_matched |-> 0])
          => (/\ last_cancel'.id = second_order_id
              /\ last_cancel'.outcome # "none")]_vars

\* The entry leg that holds the position a forced exit was started for.
ForcedLeg ==
    IF hedge_config.initial_asset_id = "first"
    THEN first_order_id ELSE second_order_id

\* C16: a forced exit cancels and re-reads the partially filled leg itself,
\* and the hedge cycle it starts takes hedge_size and close_size from that
\* leg's own fill.
C16_ForcedExitOwnLeg ==
    pc \in {"ph_cancel", "ph_read"} => ph_order_id = ForcedLeg

\* The other leg is MATCHED: on the venue when the first leg is polled, in
\* the snapshot read in this iteration when the second leg is polled.
OtherLegMatched ==
    \/ /\ pc = "poll_first"
       /\ orders[second_order_id].status = "MATCHED"
    \/ /\ pc = "poll_second"
       /\ first_order_status.status = "MATCHED"

\* C17: no forced exit is started in an iteration of the entry loop in which
\* the other leg is MATCHED; the match branch is taken instead.
C17_MatchBeforeForcedExit ==
    [][OtherLegMatched => pc' # "ph_cancel"]_vars

\* The pcs at which manage_position_after_match reads an order status.
ManageReads == {"m_read1", "m_read2", "m_poll", "x_read"}

\* C18: a status read of manage that fails ends manage with the error: no
\* result is returned, and after it no order is placed, no cancel is sent
\* and no other gateway call is made.
C18_ReadErrorEndsManage ==
    [][/\ (pc \in ManageReads /\ faults' < faults)
          => (/\ pc' = "crashed"
              /\ result' = result
              /\ Len(orders') = Len(orders)
              /\ last_cancel' = NoCancel)
       /\ pc = "crashed"
          => (/\ pc' = "crashed"
              /\ faults' = faults
              /\ result' = result
              /\ Len(orders') = Len(orders)
              /\ last_cancel' = last_cancel)]_vars

\* The pcs at which a status read is made, in main or below it.
StatusReads == {"poll_first", "poll_second", "ph_read"} \cup ManageReads

\* C19: a status read that fails for good abandons the window: the tallies
\* are unchanged and the strategy loop is back at its top, alive.
C19_WindowAbandoned ==
    [][(pc \in StatusReads /\ faults' < faults)
       => (/\ pc' = "main_top"
           /\ win_count' = win_count
           /\ loss_count' = loss_count)]_vars

\* C20: every entry poll loop is left in the end, and so is every hedge poll
\* loop: here the one whose hedge order was placed when the window of
\* allow_stop_loss had already ended.
C20_PollLoopsExit ==
    /\ (pc \in {"poll_first", "poll_second"})
          ~> (pc \notin {"poll_first", "poll_second"})
    /\ (pc = "m_poll" /\ now >= hedge_config.timestamp + MarketDuration)
          ~> (pc \notin {"m_poll", "m_gate"})

(***************************************************************************)
(* The exit size of the market-exit loop on its own: close_size is drawn   *)
(* from every thousandth up to CloseSpan and from CloseSamples, the entry  *)
(* price from EntryPriceSamples and the fetched price from every hundredth *)
(* of 0..1.  At price 1 the Decimal division panics.                       *)
(***************************************************************************)
CloseSamples == {1000, 2000, 50000}
EntryPriceSamples == {1, 45, 50, 99}
FetchedPrices == 0..100

InitExitSize ==
    /\ now = 0
    /\ timestamp = 0
    /\ gate = NoGate
    /\ sizing = NoSizing
    /\ retry = NoRetry
    /\ closer = NoCloser
    /\ quarter = NoQuarter
    /\ closing \in [close_size : (0..CloseSpan) \cup CloseSamples,
                    initial_entry_price : EntryPriceSamples,
                    price : FetchedPrices, at : {"call"}, out : {0}]
    /\ Idle

CallClosingHedgeSize ==
    /\ closing.at = "call"
    /\ closing' =
          IF closing.price = 100
          THEN [closing EXCEPT !.at = "panicked"]
          ELSE [closing EXCEPT
                   !.at = "returned",
                   !.out = closing_hedge_size(closing.close_size,
                               closing.initial_entry_price, closing.price)]
    /\ UNCHANGED << now, cfg, gate, sizing, retry, closer, quarter, orders, network, pc,
                    mainLocals, tally, hedgeLocals, cycles, result, last_cancel,
                    unwind >>

NextExitSize == CallClosingHedgeSize

SpecExitSize == InitExitSize /\ [][NextExitSize]_vars

\* C21: the exit size is close_size * initial_entry_price / (1 - price) cut
\* toward zero to 2 decimal places: a whole number of hundredths, not above
\* the quotient and less than one hundredth below it (and 0 when the
\* quotient is under one hundredth); 50 * 0.50 / (1 - 0.80) gives 125.00.
C21_ExitSize ==
    closing.at = "returned" =>
        LET q == closing.close_size * closing.initial_entry_price
            d == 100 - closing.price
        IN  /\ closing.out % 10 = 0
            /\ closing.out >= 0
            /\ closing.out * d <= q
            /\ q < (closing.out + 10) * d
            /\ (/\ closing.close_size = 50000
                /\ closing.initial_entry_price = 50
                /\ closing.price = 80) => closing.out = 125000

C21_Witness ==
    /\ closing.at = "returned"
    /\ closing.close_size = 50000
    /\ closing.initial_entry_price = 50
    /\ closing.price = 80
    /\ closing.out = 125000

\* C22: the step in which manage returns records the sign it returns once,
\* whoever started the cycle: +1 adds one to win_count, -1 adds one to
\* loss_count, 0 adds to neither.
C22_SignRecorded ==
    [][(/\ pc \in {"m_poll", "x_read"}
        /\ pc' = "main_top"
        /\ result'.returned)
       => (/\ win_count' = win_count + (IF result'.val > 0 THEN 1 ELSE 0)
           /\ loss_count' = loss_count + (IF result'.val < 0 THEN 1 ELSE 0))]_vars

(***************************************************************************)
(* close_position_with_retry on its own.  max_retries is drawn from        *)
(* 0..MaxAttempts; each close_position_by_market call fails outright or    *)
(* answers a response whose error_msg is absent (None), empty (Some(""))   *)
(* or a text.  submits and sleeps count the orders submitted and the       *)
(* one-second sleeps of the call; out is the Option returned.  A response  *)
(* with an error message updates RETRIES_TOTAL before the cap is tested.   *)
(***************************************************************************)
ErrorMessages == {"absent", "empty", "text"}

\* match response.error_msg.as_deref() { Some("") | None => .. }
response_ok(error_msg) == error_msg \in {"absent", "empty"}

InitCloser ==
    /\ now = 0
    /\ timestamp = 0
    /\ gate = NoGate
    /\ sizing = NoSizing
    /\ retry = NoRetry
    /\ closing = NoClosing
    /\ quarter = NoQuarter
    /\ \E m \in 0..MaxAttempts, a \in Assets :
            closer = [NoCloser EXCEPT !.max_retries = m, !.asset = a, !.at = "call"]
    /\ Idle

CloserUnchanged ==
    UNCHANGED << now, cfg, gate, sizing, retry, closing, quarter, orders, network, pc,
                 mainLocals, tally, hedgeLocals, cycles, result, last_cancel,
                 unwind >>

\* close_position_by_market(..).await.ok()?: the call itself failed.
CloserCallFailed ==
    /\ closer.at = "call"
    /\ closer' = [closer EXCEPT !.submits = @ + 1, !.error_msg = "NONE",
                                !.at = "returned", !.out = "None"]
    /\ CloserUnchanged

\* A response came back: success returns it, an error message counts an
\* attempt, updates RETRIES_TOTAL and tests the cap.
CloserResponse ==
    /\ closer.at = "call"
    /\ \E error_msg \in ErrorMessages :
          closer' =
            IF response_ok(error_msg)
            THEN [closer EXCEPT !.submits = @ + 1, !.error_msg = error_msg,
                                !.at = "returned", !.out = "Some"]
            ELSE IF ~with_label_values(RetriesTotalLabels,
                        RetryLabelValues(closer.asset, "close_position"))
            THEN [closer EXCEPT !.submits = @ + 1, !.error_msg = error_msg,
                                !.attempt = @ + 1, !.at = "panicked"]
            ELSE IF exhausted(closer.attempt + 1, closer.max_retries)
            THEN [closer EXCEPT !.submits = @ + 1, !.error_msg = error_msg,
                                !.attempt = @ + 1,
                                !.at = "returned", !.out = "None"]
            ELSE [closer EXCEPT !.submits = @ + 1, !.error_msg = error_msg,
                                !.attempt = @ + 1, !.at = "sleep"]
    /\ CloserUnchanged

\* sleep(Duration::from_millis(1000)), then the loop submits again
CloserSleep ==
    /\ closer.at = "sleep"
    /\ closer' = [closer EXCEPT !.sleeps = @ + 1, !.at = "call"]
    /\ CloserUnchanged

\* The sleep is behind the metric update, which every error message ends in.
NextCloser == CloserCallFailed \/ CloserResponse

SpecCloser == InitCloser /\ [][NextCloser]_vars

\* C23: a response whose error message is absent or empty is returned as
\* Some; a response with an error message is a failure that is retried:
\* while attempts are left the call sleeps and submits again, and once
\* max_retries responses carried an error it returns None.
C23_ErrorRetried ==
    /\ closer.error_msg \in {"absent", "empty"} =>
            (closer.at = "returned" /\ closer.out = "Some")
    /\ closer.error_msg = "text" =>
            IF exhausted(closer.attempt, closer.max_retries)
            THEN closer.at = "returned" /\ closer.out = "None"
            ELSE closer.at \in {"sleep", "call"}

\* C24: manage sends the cancel of the sibling only when its first read
\* shows the sibling neither CANCELED nor MATCHED.
C24_CancelOnlyNonTerminal ==
    [][(pc = "m_read1" /\ pc' = "m_cancel")
       => orders[hedge_config.second_order_id].status \notin TerminalStatuses]_vars

\* The sibling's re-read size_matched cut to whole hundredths.
SiblingFloor2 == (sibling_status.size_matched \div 10) * 10

\* C25: when the hedge order is about to be placed, hedge_size is
\* hedge_config.hedge_size if the sibling's re-read size_matched is 0, and
\* otherwise the distance between that size cut to 2 decimal places and
\* hedge_config.hedge_size, whichever of the two is larger.
C25_HedgeSizing ==
    pc = "m_place" =>
        IF sibling_status.size_matched = 0
        THEN hedge_size = hedge_config.hedge_size
        ELSE /\ SiblingFloor2 >= hedge_config.hedge_size
                => hedge_size = SiblingFloor2 - hedge_config.hedge_size
             /\ SiblingFloor2 <= hedge_config.hedge_size
                => hedge_size = hedge_config.hedge_size - SiblingFloor2

C25_Witness ==
    /\ pc = "m_place"
    /\ sibling_status.size_matched # 0
    /\ SiblingFloor2 < hedge_config.hedge_size
    /\ hedge_size = hedge_config.hedge_size - SiblingFloor2
    /\ hedge_size > 0

\* The pcs of manage from the placing of the hedge order on, and those of
\* its market-exit loop.
AfterHedgePlaced == {"m_poll", "m_gate", "x_price", "x_place", "x_read"}
ExitLoop == {"x_price", "x_place", "x_read"}

\* C26: in one hedge cycle the hedge order is the only GTC order placed, at
\* hedge_enter_price; the exit loop is entered only by the step in which the
\* cancel of the hedge order is acknowledged, so that cancel precedes the
\* first exit order; every exit order is FOK.
C26_CallOrder ==
    [][/\ (pc = "m_place" /\ Len(orders') > Len(orders))
          => (/\ orders'[Len(orders')].otype = "GTC"
              /\ orders'[Len(orders')].price = hedge_config.hedge_enter_price
              /\ hedge_order_id = 0
              /\ hedge_order_id' = Len(orders')
              /\ ~unwind.started)
       /\ pc \in AfterHedgePlaced => pc' # "m_place"
       /\ (pc \notin ExitLoop /\ pc' \in ExitLoop)
          => (/\ pc = "m_gate"
              /\ last_cancel'.id = hedge_order_id
              /\ last_cancel'.outcome = "ack"
              /\ orders[hedge_order_id].otype = "GTC"
              /\ unwind'.started
              /\ ~unwind'.exited)
       /\ (pc \in AfterHedgePlaced /\ Len(orders') > Len(orders))
          => (/\ pc = "x_place"
              /\ orders'[Len(orders')].otype = "FOK"
              /\ unwind.started
              /\ unwind'.exited)]_vars

C26_Witness ==
    /\ pc = "x_read"
    /\ unwind.started
    /\ unwind.exited
    /\ orders[exit_order_id].otype = "FOK"
    /\ hedge_order_id = 0

\* C27: every exit order is placed right after a price fetch of the same
\* iteration, at that price and with the size derived from it; after an exit
\* order is read not MATCHED the price is fetched again before the next one
\* is placed; the loop returns only on an exit order read MATCHED.
C27_ExitLoop ==
    [][/\ (pc # "x_place" /\ pc' = "x_place")
          => (/\ pc = "x_price"
              /\ exit_price' \in PriceValues
              /\ exit_order_id = 0)
       /\ (pc = "x_place" /\ Len(orders') > Len(orders))
          => LET o == orders'[Len(orders')]
                 q == hedge_config.close_size * hedge_config.initial_entry_price
                 d == 100 - exit_price
             IN  /\ exit_price \in PriceValues
                 /\ o.price = exit_price
                 /\ o.size % 10 = 0
                 /\ o.size * d <= q
                 /\ q < (o.size + 10) * d
                 /\ exit_order_id' = Len(orders')
       /\ (pc = "x_read" /\ pc' \notin {"x_read", "crashed", "panicked"})
          => IF orders[exit_order_id].status = "MATCHED"
             THEN /\ pc' = "main_top"
                  /\ result'.returned
                  /\ result'.via = "exit"
             ELSE /\ pc' = "x_price"
                  /\ exit_price' = 0
                  /\ exit_order_id' = 0
                  /\ ~result'.returned
       /\ (pc \in ExitLoop /\ pc' \notin ExitLoop \cup {"crashed", "panicked"})
          => (/\ pc = "x_read"
              /\ orders[exit_order_id].status = "MATCHED")]_vars

C27_Witness ==
    /\ pc = "x_place"
    /\ unwind.exited
    /\ exit_price \in PriceValues
    /\ exit_order_id = 0

\* The order ids of the leg read MATCHED and of the other leg.
MatchedLegId == IF MatchedLeg = "first" THEN first_order_id ELSE second_order_id
OtherLegId == IF MatchedLeg = "first" THEN second_order_id ELSE first_order_id

\* C28: in a cycle started by a leg read MATCHED the HedgeConfig names the
\* other leg's order as the one to cancel, the other leg's instrument as the
\* hedge instrument and the matched leg's instrument as the initial one;
\* the hedge order is placed on the other leg's instrument.
C28_HedgeOnOtherLeg ==
    /\ (caller = "match" /\ pc \in {"m_read1", "m_cancel", "m_read2"})
          => (/\ MatchedStatus.status = "MATCHED"
              /\ MatchedLegId # OtherLegId
              /\ hedge_config.second_order_id = OtherLegId
              /\ hedge_config.hedge_asset_id = orders[OtherLegId].asset
              /\ hedge_config.initial_asset_id = orders[MatchedLegId].asset
              /\ hedge_config.hedge_asset_id # hedge_config.initial_asset_id)
    /\ (caller = "match" /\ pc \in {"m_poll", "m_gate"})
          => (/\ orders[hedge_order_id].asset = hedge_config.hedge_asset_id
              /\ orders[hedge_order_id].asset # hedge_config.initial_asset_id)

C28_Witness ==
    /\ caller = "match"
    /\ pc = "m_poll"
    /\ hedge_config.initial_asset_id = "second"
    /\ orders[hedge_order_id].asset = "first"
    /\ orders[hedge_order_id].otype = "GTC"

\* C29: a cancel call that fails in transit is made again: the step in which
\* it fails leaves the program at the same cancel, it does not end it.
C29_CancelRetried ==
    [][(last_cancel'.outcome = "failed" /\ faults' < faults) => pc' = pc]_vars

(***************************************************************************)
(* The entry poll loop of the eth and of the btc binary, from the start of *)
(* main to the step that leaves the loop (for the match branch, a forced   *)
(* exit, or with an error).  src/btc/src/main.rs has no window gate: its   *)
(* loop reads the first leg and acts on MATCHED at once, and reads the     *)
(* second leg only when the first is not MATCHED.                          *)
(***************************************************************************)
InitEntry ==
    /\ now = 0
    /\ timestamp = 0
    /\ gate = NoGate
    /\ sizing = NoSizing
    /\ retry = NoRetry
    /\ closing = NoClosing
    /\ closer = NoCloser
    /\ quarter = NoQuarter
    /\ cfg \in Configs \cup BtcConfigs
    /\ Fresh

\* btc main: loop { let timestamp = nearest_quarter_hour(); get_tokens(..) }
BtcMainTop ==
    /\ pc = "main_top"
    /\ Len(orders) = 0
    /\ timestamp' = nearest_quarter_hour
    /\ \E out \in CallOutcomes :
          \/ /\ out = "ok"
             /\ pc' = "open_first"
             /\ UNCHANGED network
          \/ /\ Failed(out)
             /\ pc' = "panicked"
    /\ last_cancel' = NoCancel
    /\ UNCHANGED << environment, orders, opened, first_order_id,
                    second_order_id, first_order_status, second_order_status,
                    tally, hedgeLocals, cycles, result, unwind >>

\* The first leg read MATCHED left for the tests behind the second read.
btc_first_matched_deferred(status) == FALSE

\* btc main: if first_order_status.status == "MATCHED"
btc_first_matched(status) == status.status = "MATCHED"

\* btc main: client.order(first_order.order_id).await?, then the MATCHED
\* test of the first leg.
BtcPollFirst ==
    /\ pc = "poll_first"
    /\ \E out \in CallOutcomes :
          \/ /\ out = "ok"
             /\ UNCHANGED network
             /\ first_order_status' = Snapshot(orders[first_order_id])
             /\ pc' = IF btc_first_matched(Snapshot(orders[first_order_id]))
                      THEN "match_cancel" ELSE "poll_second"
          \/ /\ Failed(out)
             /\ pc' = "crashed"
             /\ UNCHANGED first_order_status
    /\ last_cancel' = NoCancel
    /\ UNCHANGED << environment, orders, timestamp, opened, first_order_id,
                    second_order_id, second_order_status, tally, hedgeLocals,
                    cycles, result, unwind >>

\* btc main: sleep(1); client.order(second_order.order_id).await?, then the
\* MATCHED test of the second leg; otherwise the loop body ends.
BtcPollSecond ==
    /\ pc = "poll_second"
    /\ \E out \in CallOutcomes :
          \/ /\ out = "ok"
             /\ UNCHANGED network
             /\ IF orders[second_order_id].status = "MATCHED"
                THEN /\ pc' = "match_cancel"
                     /\ second_order_status' = Snapshot(orders[second_order_id])
                     /\ UNCHANGED first_order_status
                ELSE /\ pc' = "poll_first"
                     /\ second_order_status' = NoStatus
                     /\ first_order_status' = NoStatus
          \/ /\ Failed(out)
             /\ pc' = "crashed"
             /\ UNCHANGED << first_order_status, second_order_status >>
    /\ last_cancel' = NoCancel
    /\ UNCHANGED << environment, orders, timestamp, opened, first_order_id,
                    second_order_id, tally, hedgeLocals, cycles, result, unwind >>

\* The entry loop of the eth binary.
EthMainTop == cfg.asset = "eth" /\ MainTopOnce

EthPollFirst == cfg.asset = "eth" /\ PollFirst

EthPollSecond == cfg.asset = "eth" /\ PollSecond

\* The entry loop of the btc binary.
BtcTop == cfg.asset = "btc" /\ BtcMainTop

BtcFirst == cfg.asset = "btc" /\ BtcPollFirst

BtcSecond == cfg.asset = "btc" /\ BtcPollSecond

NextEntry ==
    \/ EthMainTop
    \/ EthPollFirst
    \/ EthPollSecond
    \/ BtcTop
    \/ BtcFirst
    \/ BtcSecond
    \/ OpenFirst
    \/ OpenSecond
    \/ Venue
    \/ Tick

SpecEntry == InitEntry /\ [][NextEntry]_vars

ManagePcs == {"m_read1", "m_cancel", "m_read2", "m_place"} \cup AfterHedgePlaced

\* C31: from the entry of manage to its return the HedgeConfig keeps the
\* value it was given, through every step including the sizing of the hedge
\* (whose corrected size is the local hedge_size) and a step that ends with
\* an error; its timestamp is that of the cycle, so every stop-loss test and
\* every exit order of the cycle is computed from the same timestamp and
\* close_size.
C31_ConfigImmutable ==
    [][/\ (pc \in ManagePcs /\ pc' # "main_top")
          => hedge_config' = hedge_config
       /\ pc' \in ManagePcs
          => (/\ hedge_config'.timestamp = cycles'[Len(cycles')]
              /\ hedge_config'.close_size > 0)
       /\ (pc = "x_place" /\ pc' = "x_read")
          => orders'[exit_order_id'].size =
                closing_hedge_size(hedge_config'.close_size,
                    hedge_config'.initial_entry_price, exit_price)]_vars

C31_Witness ==
    /\ pc = "m_gate"
    /\ stop_loss_due
    /\ hedge_config.timestamp = cycles[Len(cycles)]
    /\ orders[hedge_order_id].size # hedge_config.hedge_size

\* C32: no exit order is submitted in a cycle whose hedge order is MATCHED on
\* the venue: when the hedge order was matched between the read of the poll
\* and the cancel of the stop-loss, the unwind places no exit order.
C32_NoExitOnMatchedHedge ==
    ~(/\ unwind.started
      /\ unwind.seen # "MATCHED"
      /\ unwind.hedge = "MATCHED"
      /\ unwind.exited)

\* The entry orders of leg `leg` that rest on the venue: the GTC orders on
\* that leg's asset at the entry limit price that are LIVE.
RestingEntryOrders(leg) ==
    {i \in DOMAIN orders :
        /\ orders[i].status = "LIVE"
        /\ orders[i].otype = "GTC"
        /\ orders[i].asset = leg
        /\ orders[i].price = cfg.limit_enter_price}

\* C33: at most one entry order of the first leg and at most one of the
\* second leg rests on the venue, also after open_start_positions failed
\* with the first leg placed and was called again.
C33_OneEntryOrderPerLeg ==
    /\ Cardinality(RestingEntryOrders("first")) <= 1
    /\ Cardinality(RestingEntryOrders("second")) <= 1

\* C34: from the placing of the hedge order to the end of the hedge cycle no
\* entry leg of the window is LIVE without a cancel call acknowledged on its
\* own order id.
C34_NoLiveLegInCycle ==
    pc \in AfterHedgePlaced
        => \A id \in {first_order_id, second_order_id} :
              orders[id].status = "LIVE" => orders[id].acks > 0

\* C35: every price the exit loop fetches yields an exit order, and every
\* exit order submitted has a size above zero.
C35_ExitSizePositive ==
    [][/\ (pc = "x_price" /\ pc' \notin {"x_price", "crashed"})
          => pc' = "x_place"
       /\ (pc = "x_place" /\ pc' = "x_read")
          => orders'[exit_order_id'].size > 0]_vars

\* C36: a failed attempt of get_order_with_retry updates RETRIES_TOTAL and
\* goes on to the test of the cap: the call sleeps before its next attempt
\* or returns the error, and never panics.
C36_RetryMetricFits ==
    retry.attempt > 0 => retry.at \in {"sleep", "call", "ok", "err"}

\* C37: a close call that fails outright returns None at once, with no
\* attempt counted and no sleep for it; a response with an error message is retried
\* while attempts are left; with max_retries = 0 one order is submitted.
C37_FailureKinds ==
    /\ (closer.at = "returned" /\ closer.error_msg = "NONE") =>
            /\ closer.out = "None"
            /\ closer.submits = closer.attempt + 1
            /\ closer.sleeps = closer.attempt
    /\ (closer.error_msg = "text" /\ closer.attempt < closer.max_retries) =>
            /\ closer.at \in {"sleep", "call"}
            /\ closer.submits = closer.attempt
    /\ closer.max_retries = 0 => closer.submits <= 1

(***************************************************************************)
(* nearest_quarter_hour on its own, computed on the fields of the local    *)
(* time as the code does.  The clock is drawn from the seconds around each *)
(* quarter of one hour of the second day of the epoch and from the middle  *)
(* of each quarter, the zone from fixed offsets east and west of UTC.      *)
(***************************************************************************)
ZoneOffsets == {-16200, 0, 3600, 19800, 20700, 45900}
QuarterBase == 86400 + 7 * 3600
QuarterClock ==
    UNION {{QuarterBase + q * 900 + d : d \in (-QuarterSpan)..QuarterSpan}
              \cup {QuarterBase + q * 900 + 450} : q \in 0..4}

\* now.minute() of a local time in seconds
minute(local) == (local \div 60) % 60

\* The quarter the minute is in or on, not the one behind it.
next_quarter_minute_ceil(m) == ((m + 14) \div 15) * 15

\* let next_quarter_minute = ((minute / 15) + 1) * 15
next_quarter_minute(m) == ((m \div 15) + 1) * 15

\* local.with_minute(m).with_second(0).with_nanosecond(0)
with_minute(local, m) == (local \div 3600) * 3600 + m * 60

\* let quarter = if next_quarter_minute < 60 { .. } else { now + 1 h .. }
quarter_of(local) ==
    IF next_quarter_minute(minute(local)) < 60
    THEN with_minute(local, next_quarter_minute(minute(local)))
    ELSE with_minute(local + 3600, 0)

\* Local::now() is the clock moved by the zone's offset; quarter.timestamp()
\* moves it back.
quarter_timestamp(utc, offset) == quarter_of(utc + offset) - offset

InitQuarter ==
    /\ now \in QuarterClock
    /\ timestamp = 0
    /\ gate = NoGate
    /\ sizing = NoSizing
    /\ retry = NoRetry
    /\ closing = NoClosing
    /\ closer = NoCloser
    /\ \E o \in ZoneOffsets : quarter = [NoQuarter EXCEPT !.offset = o, !.at = "call"]
    /\ Idle

CallNearestQuarterHour ==
    /\ quarter.at = "call"
    /\ quarter' = [quarter EXCEPT !.at = "returned",
                                  !.out = quarter_timestamp(now, quarter.offset)]
    /\ UNCHANGED << now, cfg, gate, sizing, retry, closing, closer, orders,
                    network, pc, mainLocals, tally, hedgeLocals, cycles, result,
                    last_cancel, unwind >>

NextQuarter == CallNearestQuarterHour

SpecQuarter == InitQuarter /\ [][NextQuarter]_vars

\* C38: in a zone whose offset is a multiple of 15 minutes the timestamp
\* returned is a multiple of 900 s, later than now and at most 900 s ahead
\* (the next quarter-hour boundary, as the strategy loop takes it); on a
\* boundary it is the boundary after it, and in the last quarter of a local
\* hour it is the top of the next local hour.
C38_NextBoundary ==
    quarter.at = "returned" =>
        /\ quarter.out % MarketDuration = 0
        /\ quarter.out > now
        /\ quarter.out <= now + MarketDuration
        /\ quarter.out = nearest_quarter_hour
        /\ now % MarketDuration = 0 => quarter.out = now + MarketDuration
        /\ minute(now + quarter.offset) >= 45 =>
                /\ (quarter.out + quarter.offset) % 3600 = 0
                /\ (quarter.out + quarter.offset) \div 3600
                        = ((now + quarter.offset) \div 3600) + 1

C38_Witness ==
    /\ quarter.at = "returned"
    /\ quarter.offset = 20700
    /\ minute(now + quarter.offset) = 59
    /\ (now + quarter.offset) % 60 = 59
    /\ quarter.out = now + 1

(***************************************************************************)
(* The two window gates over the life of one window: the clock runs second *)
(* by second from before the largest entry grace to past the end of the    *)
(* market, and in every second both gates are asked.  rises and falls     *)
(* count how often each answer went from false to true and back.           *)
(***************************************************************************)
StopGraces == GateGraces \cup {MarketDuration, MarketDuration + GateSpan}
ClockStart(window) == window - (EntryGrace + GateSpan)
ClockEnd(window) == window + MarketDuration + GateSpan

InitGateClock ==
    /\ timestamp \in GateWindows
    /\ now = ClockStart(timestamp)
    /\ \E g \in GateGraces, h \in StopGraces :
          gate = [fn |-> "both", market_timestamp |-> timestamp,
                  grace_seconds |-> g, stop_grace |-> h, at |-> now,
                  out |-> allow_trade(timestamp, g),
                  stop |-> allow_stop_loss(timestamp, h),
                  trade_rises |-> 0, trade_falls |-> 0,
                  stop_rises |-> 0, stop_falls |-> 0]
    /\ sizing = NoSizing
    /\ retry = NoRetry
    /\ closing = NoClosing
    /\ closer = NoCloser
    /\ quarter = NoQuarter
    /\ Idle

\* One second passes.
GateSecond ==
    /\ gate.at = now
    /\ now < ClockEnd(timestamp)
    /\ now' = now + 1
    /\ UNCHANGED << cfg, calls, orders, network, pc, mainLocals, tally,
                    hedgeLocals, cycles, result, last_cancel, unwind >>

\* allow_trade and allow_stop_loss are called in the new second.
CallBothGates ==
    /\ gate.at < now
    /\ LET trade == allow_trade(timestamp, gate.grace_seconds)
           stop == allow_stop_loss(timestamp, gate.stop_grace)
       IN  gate' = [gate EXCEPT
                !.at = now,
                !.out = trade,
                !.stop = stop,
                !.trade_rises = IF ~gate.out /\ trade THEN @ + 1 ELSE @,
                !.trade_falls = IF gate.out /\ ~trade THEN @ + 1 ELSE @,
                !.stop_rises = IF ~gate.stop /\ stop THEN @ + 1 ELSE @,
                !.stop_falls = IF gate.stop /\ ~stop THEN @ + 1 ELSE @]
    /\ UNCHANGED << now, cfg, sizing, retry, closing, closer, quarter, orders,
                    network, pc, mainLocals, tally, hedgeLocals, cycles, result,
                    last_cancel, unwind >>

NextGateClock == GateSecond \/ CallBothGates

SpecGateClock == InitGateClock /\ [][NextGateClock]_vars

\* Both gates were asked in the current second with graces not both zero.
NotBothZero ==
    /\ gate.at = now
    /\ gate.grace_seconds # 0 \/ gate.stop_grace # 0

\* C39, as stated: for graces not both zero the two gates are never both
\* true; allow_trade falls once and never rises; for every grace
\* allow_stop_loss is false, then true, then false from 900 s after the
\* window start on.
C39_GatePhases ==
    NotBothZero =>
        /\ ~(gate.out /\ gate.stop)
        /\ gate.trade_rises = 0
        /\ gate.trade_falls <= 1
        /\ now >= timestamp + MarketDuration =>
                /\ ~gate.stop
                /\ gate.trade_falls = 1
                /\ gate.stop_rises = 1
                /\ gate.stop_falls = 1

\* C39, amended: for graces not both zero the two gates are never both
\* true; allow_trade is true up to grace seconds before the window start
\* and false ever after; allow_stop_loss is true exactly from grace seconds
\* after the window start to the last second before 900 s, so with a grace
\* below 900 it is false, then true, then false, and with a grace of 900 or
\* more it is never true.
C39_GateIntervals ==
    NotBothZero =>
        /\ ~(gate.out /\ gate.stop)
        /\ gate.out <=> now <= timestamp - gate.grace_seconds
        /\ gate.stop <=> /\ now >= timestamp + gate.stop_grace
                         /\ now < timestamp + MarketDuration
        /\ gate.trade_rises = 0
        /\ gate.trade_falls <= 1
        /\ gate.stop_rises <= 1
        /\ gate.stop_falls <= gate.stop_rises
        /\ now >= timestamp + MarketDuration =>
                /\ gate.trade_falls = 1
                /\ gate.stop_rises =
                       IF gate.stop_grace < MarketDuration THEN 1 ELSE 0
                /\ gate.stop_falls = gate.stop_rises

C39_Witness ==
    /\ gate.fn = "both"
    /\ gate.at = now
    /\ now > timestamp + MarketDuration
    /\ gate.grace_seconds = EntryGrace
    /\ gate.stop_grace = StopLossGrace
    /\ gate.trade_falls = 1
    /\ gate.stop_rises = 1
    /\ gate.stop_falls = 1

=============================================================================
